---- MODULE Spec2Model ----
(***************************************************************************)
(* Social-graph construction from a Q&A forum dataset:                     *)
(*   src/temp.py       attributed node builder, edge builders that skip    *)
(*                     self-interactions, activity filters, timestamp      *)
(*                     normaliser                                          *)
(*   src/src/utils.py  bare node builder, edge builders without the        *)
(*                     self-interaction test                               *)
(*                                                                         *)
(* A pandas table is a sequence of rows, a row a record of its columns.    *)
(* A networkx.Graph is a record                                            *)
(*   node : function  node id -> attribute bag                             *)
(*   edge : function  edge    -> attribute bag                             *)
(* where an undirected edge is the set {u, v} of its endpoints (a self-    *)
(* loop is the singleton {u}) and an attribute bag is a function from      *)
(* attribute names to values.                                              *)
(***************************************************************************)
EXTENDS Integers, Sequences, FiniteSets, TLC

VARIABLES
    users,      \* users table handed to the program
    posts,      \* posts table
    comments,   \* comments table
    threshold,  \* activity threshold
    G,          \* the graph built by the functions of src/temp.py
    Gu,         \* the graph built by the functions of src/src/utils.py
    G0,         \* G as it was when the last operation was called
    Gu0,        \* Gu as it was when the last operation was called
    op,         \* name of the last operation called ("init" before any)
    called,     \* names of the operations called so far
    raised,     \* exception the last src/temp.py operation ended with, or "none"
    raisedU,    \* same for the src/src/utils.py operation
    active_user_data,      \* result of preprocess_user_data
    active_posts_data,     \* result of preprocess_post_data
    active_comments_data   \* result of preprocess_comment_data

vars == <<users, posts, comments, threshold, G, Gu, G0, Gu0, op, called, raised, raisedU,
          active_user_data, active_posts_data, active_comments_data>>

----------------------------------------------------------------------------
(* Bounds of the model *)

MaxPosts == 2        \* rows of a posts table
MaxComments == 1     \* rows of a comments table of the pipeline
MaxRows == 3         \* rows of posts and comments together, for the edge builders
MaxUsers == 2        \* rows of a users table
MaxThreshold == 4    \* thresholds are 0 .. MaxThreshold

UserIds == {1, 2}
PostIds == {1, 2}

----------------------------------------------------------------------------
(* Values *)

\* A missing cell of a table (numpy NaN, what dropna / value_counts drop).
\* Post Ids and the Id column of a users table are keys and are never missing.
\* As a node of a graph every NaN is the one node NaN here; networkx, which
\* keys nodes by identity and equality, may hold several.
NaN == 0

\* Python's None: the default Series.get returns for a key that is not in the index.
None == -1

\* The sub-Series that Series.get returns for a key the index holds more than once.
SubSeries == -2

\* mutant of PyNeq: the comparison left out, as in src/src/utils.py
PyNeq_always(a, b) == TRUE

\* Python's != on cell values: NaN differs from everything, itself included.
PyNeq(a, b) == IF a = NaN \/ b = NaN THEN TRUE ELSE a # b

SeqToSet(s) == {s[i] : i \in DOMAIN s}

\* Series.get(key) on  table.set_index('Id')['OwnerUserId']
SeriesGet(table, key) ==
    LET hits == {i \in DOMAIN table : table[i].Id = key}
    IN  IF hits = {} THEN None
        ELSE IF Cardinality(hits) = 1 THEN table[CHOOSE i \in hits : TRUE].OwnerUserId
        ELSE SubSeries

----------------------------------------------------------------------------
(* networkx.Graph *)

EmptyBag == <<>>

EmptyGraph == [node |-> <<>>, edge |-> <<>>]

Nodes(g) == DOMAIN g.node
Edges(g) == DOMAIN g.edge

\* mutant of add_node: the bag of a known node is replaced, not updated
add_node_replace(g, n, attrs) ==
    IF n \in Nodes(g)
    THEN [g EXCEPT !.node = [@ EXCEPT ![n] = attrs]]
    ELSE [g EXCEPT !.node = @ @@ (n :> attrs)]

\* G.add_node(n, **attrs): a new node gets the bag, a known node has its bag updated
add_node(g, n, attrs) ==
    IF n \in Nodes(g)
    THEN [g EXCEPT !.node = [@ EXCEPT ![n] = attrs @@ @]]
    ELSE [g EXCEPT !.node = @ @@ (n :> attrs)]

\* G.add_edge(u, v): both endpoints become nodes, the edge is inserted once
add_edge(g, u, v) ==
    LET g1 == IF u \in Nodes(g) THEN g ELSE add_node(g, u, EmptyBag)
        g2 == IF v \in Nodes(g1) THEN g1 ELSE add_node(g1, v, EmptyBag)
    IN  IF {u, v} \in Edges(g2) THEN g2
        ELSE [g2 EXCEPT !.edge = @ @@ ({u, v} :> EmptyBag)]

----------------------------------------------------------------------------
(* Edge builders of src/temp.py *)

IsAnswerRow(r) == r.PostTypeId = 2 /\ r.ParentId # NaN /\ r.OwnerUserId # NaN

\* mutant of IsQuestionRow: the lookup table built from every post
IsQuestionRow_any(r) == TRUE

IsQuestionRow(r) == r.PostTypeId = 1

RECURSIVE PostLoop(_, _, _)
\* the for loop of add_edges_from_post_data; the truth test of a comparison
\* with a sub-Series raises ValueError and ends the call
PostLoop(g, answers, question_askers) ==
    IF answers = <<>> THEN [g |-> g, raised |-> "none"]
    ELSE LET answerer_id == Head(answers).OwnerUserId
             question_id == Head(answers).ParentId
             asker_id    == SeriesGet(question_askers, question_id)
         IN  IF asker_id = SubSeries THEN [g |-> g, raised |-> "ValueError"]
             ELSE IF asker_id # None /\ PyNeq(answerer_id, asker_id)
                  THEN PostLoop(add_edge(g, answerer_id, asker_id), Tail(answers), question_askers)
                  ELSE PostLoop(g, Tail(answers), question_askers)

add_edges_from_post_data(g, posts_data) ==
    LET answers_data    == SelectSeq(posts_data, IsAnswerRow)
        question_askers == SelectSeq(posts_data, IsQuestionRow)
    IN  PostLoop(g, answers_data, question_askers)

IsCommentRow(r) == r.PostId # NaN /\ r.UserId # NaN

RECURSIVE CommentLoop(_, _, _)
CommentLoop(g, rows, post_owners) ==
    IF rows = <<>> THEN [g |-> g, raised |-> "none"]
    ELSE LET commenter_id  == Head(rows).UserId
             post_id       == Head(rows).PostId
             post_owner_id == SeriesGet(post_owners, post_id)
         IN  IF post_owner_id = SubSeries THEN [g |-> g, raised |-> "ValueError"]
             ELSE IF post_owner_id # None /\ PyNeq(commenter_id, post_owner_id)
                  THEN CommentLoop(add_edge(g, commenter_id, post_owner_id), Tail(rows), post_owners)
                  ELSE CommentLoop(g, Tail(rows), post_owners)

add_edges_from_comment_data(g, comments_data, posts_data) ==
    CommentLoop(g, SelectSeq(comments_data, IsCommentRow), posts_data)

----------------------------------------------------------------------------
(* Edge builders of src/src/utils.py *)

\* G.add_edge(u, v) with v an unhashable sub-Series: u is inserted as a node,
\* then hashing v raises TypeError
add_edge_unhashable(g, u) == IF u \in Nodes(g) THEN g ELSE add_node(g, u, EmptyBag)

RECURSIVE utils_PostLoop(_, _, _)
utils_PostLoop(g, answers, question_askers) ==
    IF answers = <<>> THEN [g |-> g, raised |-> "none"]
    ELSE LET answerer_id == Head(answers).OwnerUserId
             question_id == Head(answers).ParentId
             asker_id    == SeriesGet(question_askers, question_id)
         IN  IF asker_id = SubSeries
             THEN [g |-> add_edge_unhashable(g, answerer_id), raised |-> "TypeError"]
             ELSE IF asker_id # None
                  THEN utils_PostLoop(add_edge(g, answerer_id, asker_id), Tail(answers), question_askers)
                  ELSE utils_PostLoop(g, Tail(answers), question_askers)

utils_add_edges_from_post_data(g, posts_data) ==
    LET answers_data    == SelectSeq(posts_data, IsAnswerRow)
        question_askers == SelectSeq(posts_data, IsQuestionRow)
    IN  utils_PostLoop(g, answers_data, question_askers)

RECURSIVE utils_CommentLoop(_, _, _)
utils_CommentLoop(g, rows, post_owners) ==
    IF rows = <<>> THEN [g |-> g, raised |-> "none"]
    ELSE LET commenter_id  == Head(rows).UserId
             post_id       == Head(rows).PostId
             post_owner_id == SeriesGet(post_owners, post_id)
         IN  IF post_owner_id = SubSeries
             THEN [g |-> add_edge_unhashable(g, commenter_id), raised |-> "TypeError"]
             ELSE IF post_owner_id # None
                  THEN utils_CommentLoop(add_edge(g, commenter_id, post_owner_id), Tail(rows), post_owners)
                  ELSE utils_CommentLoop(g, Tail(rows), post_owners)

\* mutant of utils_add_edges_from_comment_data: the dropna left out
utils_add_edges_from_comment_data_nodropna(g, comments_data, posts_data) ==
    utils_CommentLoop(g, comments_data, posts_data)

utils_add_edges_from_comment_data(g, comments_data, posts_data) ==
    utils_CommentLoop(g, SelectSeq(comments_data, IsCommentRow), posts_data)

----------------------------------------------------------------------------
(* Node builders *)

\* row.to_dict() followed by pop('Id'): the row's other columns
PopId(row) == [k \in DOMAIN row \ {"Id"} |-> row[k]]

RECURSIVE add_nodes_from_user_data(_, _)
\* src/temp.py: every other column of the row becomes a node attribute
add_nodes_from_user_data(g, user_data) ==
    IF user_data = <<>> THEN g
    ELSE LET row     == Head(user_data)
             user_id == row["Id"]
         IN  add_nodes_from_user_data(add_node(g, user_id, PopId(row)), Tail(user_data))

RECURSIVE utils_add_nodes_from_user_data(_, _)
\* src/src/utils.py: G.add_node(user_id), no attribute
utils_add_nodes_from_user_data(g, user_data) ==
    IF user_data = <<>> THEN g
    ELSE utils_add_nodes_from_user_data(add_node(g, Head(user_data)["Id"], EmptyBag),
                                        Tail(user_data))

----------------------------------------------------------------------------
(* Activity filters of src/temp.py *)

Ids(table) == {table[i].Id : i \in DOMAIN table}

\* Series.value_counts(): occurrences per value, missing values dropped
value_counts(table, col) ==
    [v \in {table[i][col] : i \in DOMAIN table} \ {NaN} |->
        Cardinality({i \in DOMAIN table : table[i][col] = v})]

\* Series.add(other, fill_value=0): the union of the two indexes
series_add(a, b) ==
    [k \in DOMAIN a \cup DOMAIN b |->
        (IF k \in DOMAIN a THEN a[k] ELSE 0) + (IF k \in DOMAIN b THEN b[k] ELSE 0)]

\* mutants of MeetsThreshold: a strict bound, and an exact match
MeetsThreshold_strict(count, t) == count > t

MeetsThreshold_exact(count, t) == count = t

\* combined_count >= threshold
MeetsThreshold(count, t) == count >= t

preprocess_user_data(user_data, posts_data, comments_data, t) ==
    LET posts_count    == value_counts(posts_data, "OwnerUserId")
        comments_count == value_counts(comments_data, "UserId")
        combined_count == series_add(posts_count, comments_count)
        active_users   == {u \in DOMAIN combined_count : MeetsThreshold(combined_count[u], t)}
        IsActive(r)    == r.Id \in active_users
    IN  SelectSeq(user_data, IsActive)

\* mutant of OwnedByActive: every post kept
OwnedByActive_any(r, user_data) == TRUE

\* posts_data['OwnerUserId'].isin(active_user_data['Id'])
OwnedByActive(r, user_data) == r.OwnerUserId \in Ids(user_data)

preprocess_post_data(posts_data, user_data) ==
    LET Keep(r) == OwnedByActive(r, user_data)
    IN  SelectSeq(posts_data, Keep)

\* comments_data['UserId'].isin(active_user_data['Id'])
WrittenByActive(r, user_data) == r.UserId \in Ids(user_data)

\* mutant of OnActivePost: the second filter left out
OnActivePost_any(r, posts_data) == TRUE

\* active_comments_data['PostId'].isin(active_posts_data['Id'])
OnActivePost(r, posts_data) == r.PostId \in Ids(posts_data)

preprocess_comment_data(comments_data, user_data, posts_data) ==
    LET ByUser(r) == WrittenByActive(r, user_data)
        OnPost(r) == OnActivePost(r, posts_data)
    IN  SelectSeq(SelectSeq(comments_data, ByUser), OnPost)

----------------------------------------------------------------------------
(* Attribute values and the timestamp normaliser of src/temp.py *)

\* a pandas.Timestamp
Timestamp(y, mo, d, h, mi, s) ==
    [type |-> "Timestamp", year |-> y, month |-> mo, day |-> d,
     hour |-> h, minute |-> mi, second |-> s]

\* a Python str, as the sequence of its characters
Str(chars) == [type |-> "str", chars |-> chars]

IntVal(n) == [type |-> "int", v |-> n]

\* pandas.NaT, the missing value of a datetime column; its type is NaTType
NaT == [type |-> "NaTType"]

\* isinstance(value, pd.Timestamp), pd being pandas (src/temp.py itself binds
\* no name pd: it holds no import statement)
isinstance(value, cls) == value.type = cls

Digits == <<"0", "1", "2", "3", "4", "5", "6", "7", "8", "9">>
Digit(n) == Digits[n + 1]

\* mutant of Pad2: no zero padding
Pad2_unpadded(n) == IF n < 10 THEN <<Digit(n)>> ELSE <<Digit((n \div 10) % 10), Digit(n % 10)>>

\* %m %d %H %M %S: two digits, zero-padded
Pad2(n) == <<Digit((n \div 10) % 10), Digit(n % 10)>>

\* %Y: four digits
Pad4(n) == <<Digit((n \div 1000) % 10), Digit((n \div 100) % 10)>> \o Pad2(n % 100)

\* value.strftime('%Y-%m-%d %H:%M:%S')
strftime(ts) ==
    Str(Pad4(ts.year) \o <<"-">> \o Pad2(ts.month) \o <<"-">> \o Pad2(ts.day) \o <<" ">>
        \o Pad2(ts.hour) \o <<":">> \o Pad2(ts.minute) \o <<":">> \o Pad2(ts.second))

\* the inner loop over data.items()
ConvertBag(data) ==
    [key \in DOMAIN data |->
        IF isinstance(data[key], "Timestamp") THEN strftime(data[key]) ELSE data[key]]

convert_timestamps_to_strings(g) ==
    [node |-> [n \in Nodes(g) |-> ConvertBag(g.node[n])],
     edge |-> [e \in Edges(g) |-> ConvertBag(g.edge[e])]]

----------------------------------------------------------------------------
(* Input tables *)

RECURSIVE TablesUpTo(_, _)
\* all tables of at most n rows drawn from Rows
TablesUpTo(Rows, n) ==
    IF n <= 0 THEN {<<>>}
    ELSE LET shorter == TablesUpTo(Rows, n - 1)
         IN  shorter \cup {Append(t, r) : t \in {s \in shorter : Len(s) = n - 1}, r \in Rows}

\* a question carries no ParentId, an answer may or may not
PostRows ==
    [Id : PostIds, PostTypeId : {1}, OwnerUserId : UserIds \cup {NaN}, ParentId : {NaN}]
    \cup
    [Id : PostIds, PostTypeId : {2}, OwnerUserId : UserIds \cup {NaN}, ParentId : PostIds \cup {NaN}]

CommentRows == [UserId : UserIds \cup {NaN}, PostId : PostIds \cup {NaN}]

PostTables == TablesUpTo(PostRows, MaxPosts)

Idle ==
    /\ users = <<>>
    /\ threshold = 0
    /\ active_user_data = <<>>
    /\ active_posts_data = <<>>
    /\ active_comments_data = <<>>

Fresh ==
    /\ G0 = G /\ Gu0 = Gu
    /\ op = "init" /\ called = {}
    /\ raised = "none" /\ raisedU = "none"

----------------------------------------------------------------------------
(* Specification of the edge builders: a dataset, an empty graph, and any *)
(* sequence of calls of the two builders on it                             *)

InitEdges ==
    /\ posts \in PostTables
    /\ comments \in TablesUpTo(CommentRows, MaxRows - Len(posts))
    /\ G = EmptyGraph /\ Gu = EmptyGraph
    /\ Fresh
    /\ Idle

AddEdgesFromPostData(posts_data) ==
    LET r  == add_edges_from_post_data(G, posts_data)
        ru == utils_add_edges_from_post_data(Gu, posts_data)
    IN  /\ G' = r.g /\ raised' = r.raised
        /\ Gu' = ru.g /\ raisedU' = ru.raised
        /\ G0' = G /\ Gu0' = Gu
        /\ op' = "add_edges_from_post_data"
        /\ called' = called \cup {"add_edges_from_post_data"}

AddEdgesFromCommentData(comments_data, posts_data) ==
    LET r  == add_edges_from_comment_data(G, comments_data, posts_data)
        ru == utils_add_edges_from_comment_data(Gu, comments_data, posts_data)
    IN  /\ G' = r.g /\ raised' = r.raised
        /\ Gu' = ru.g /\ raisedU' = ru.raised
        /\ G0' = G /\ Gu0' = Gu
        /\ op' = "add_edges_from_comment_data"
        /\ called' = called \cup {"add_edges_from_comment_data"}

Inputs == <<users, posts, comments, threshold>>
Outputs == <<active_user_data, active_posts_data, active_comments_data>>

NextEdges ==
    \/ AddEdgesFromPostData(posts) /\ UNCHANGED <<Inputs, Outputs>>
    \/ AddEdgesFromCommentData(comments, posts) /\ UNCHANGED <<Inputs, Outputs>>

SpecEdges == InitEdges /\ [][NextEdges]_vars

----------------------------------------------------------------------------
(* Claims about the edge builders *)

UniqueIds(posts_data) ==
    \A i, j \in DOMAIN posts_data : posts_data[i].Id = posts_data[j].Id => i = j

NoSelfLoops(g) == \A e \in Edges(g) : Cardinality(e) = 2

\* rows of a posts table that resolve a self-answer: an answer whose parent
\* question has the answerer as owner
SelfAnswerers(posts_data) ==
    {a.OwnerUserId : a \in {x \in SeqToSet(posts_data) :
        /\ x.PostTypeId = 2 /\ x.OwnerUserId # NaN /\ x.ParentId # NaN
        /\ \E q \in SeqToSet(posts_data) :
              q.PostTypeId = 1 /\ q.Id = x.ParentId /\ q.OwnerUserId = x.OwnerUserId}}

SelfCommenters(comments_data, posts_data) ==
    {c.UserId : c \in {x \in SeqToSet(comments_data) :
        /\ x.UserId # NaN /\ x.PostId # NaN
        /\ \E p \in SeqToSet(posts_data) : p.Id = x.PostId /\ p.OwnerUserId = x.UserId}}

\* C1: after any sequence of calls of the two edge builders of src/temp.py,
\* started from a graph without self-loops, every edge joins two different
\* endpoints.
C1_NoSelfLoops == NoSelfLoops(G)

\* both builders have run without error on a dataset that holds a self-answer
\* and a comment on one's own post
C1_Witness ==
    /\ called = {"add_edges_from_post_data", "add_edges_from_comment_data"}
    /\ raised = "none" /\ UniqueIds(posts)
    /\ SelfAnswerers(posts) # {}
    /\ SelfCommenters(comments, posts) # {}

\* the edges the claim describes: {answerer, asker} for an answer with
\* ParentId and OwnerUserId present whose ParentId is the Id of a question
\* owned by asker, asker different from answerer
AnswerEdges(posts_data) ==
    {{a.OwnerUserId, q.OwnerUserId} : <<a, q>> \in
        {<<x, y>> \in SeqToSet(posts_data) \X SeqToSet(posts_data) :
            /\ x.PostTypeId = 2 /\ x.ParentId # NaN /\ x.OwnerUserId # NaN
            /\ y.PostTypeId = 1 /\ y.Id = x.ParentId
            /\ x.OwnerUserId # y.OwnerUserId}}

\* every node and edge of g0 is in g with the bag it had
Kept(g0, g) ==
    /\ \A n \in Nodes(g0) : n \in Nodes(g) /\ g.node[n] = g0.node[n]
    /\ \A e \in Edges(g0) : e \in Edges(g) /\ g.edge[e] = g0.edge[e]

C3_NoMissingEndpoint ==
    /\ NaN \notin Nodes(G)
    /\ \A e \in Edges(G) : NaN \notin e

----------------------------------------------------------------------------
(* Specification of the pipeline: the three filters, then the three builders, *)
(* each fed the output of the filters                                        *)

Thresholds == 0 .. MaxThreshold

\* a users table that holds the Id column only
BareUserRows == [Id : UserIds]

InitPipeline ==
    /\ users \in TablesUpTo(BareUserRows, MaxUsers)
    /\ posts \in PostTables
    /\ comments \in TablesUpTo(CommentRows, MaxComments)
    /\ threshold \in Thresholds
    /\ G = EmptyGraph /\ Gu = EmptyGraph
    /\ Fresh
    /\ active_user_data = <<>>
    /\ active_posts_data = <<>>
    /\ active_comments_data = <<>>

Graphs == <<G, Gu, G0, Gu0, raised, raisedU>>

PreprocessUserData ==
    /\ op = "init"
    /\ active_user_data' = preprocess_user_data(users, posts, comments, threshold)
    /\ op' = "preprocess_user_data"
    /\ called' = called \cup {"preprocess_user_data"}
    /\ UNCHANGED <<Inputs, Graphs, active_posts_data, active_comments_data>>

PreprocessPostData ==
    /\ op = "preprocess_user_data"
    /\ active_posts_data' = preprocess_post_data(posts, active_user_data)
    /\ op' = "preprocess_post_data"
    /\ called' = called \cup {"preprocess_post_data"}
    /\ UNCHANGED <<Inputs, Graphs, active_user_data, active_comments_data>>

PreprocessCommentData ==
    /\ op = "preprocess_post_data"
    /\ active_comments_data' =
           preprocess_comment_data(comments, active_user_data, active_posts_data)
    /\ op' = "preprocess_comment_data"
    /\ called' = called \cup {"preprocess_comment_data"}
    /\ UNCHANGED <<Inputs, Graphs, active_user_data, active_posts_data>>

AddNodesFromUserData(user_data) ==
    /\ G' = add_nodes_from_user_data(G, user_data)
    /\ Gu' = utils_add_nodes_from_user_data(Gu, user_data)
    /\ G0' = G /\ Gu0' = Gu
    /\ raised' = "none" /\ raisedU' = "none"
    /\ op' = "add_nodes_from_user_data"
    /\ called' = called \cup {"add_nodes_from_user_data"}

NextPipeline ==
    \/ PreprocessUserData
    \/ PreprocessPostData
    \/ PreprocessCommentData
    \/ /\ op = "preprocess_comment_data"
       /\ AddNodesFromUserData(active_user_data)
       /\ UNCHANGED <<Inputs, Outputs>>
    \/ /\ op = "add_nodes_from_user_data"
       /\ AddEdgesFromPostData(active_posts_data)
       /\ UNCHANGED <<Inputs, Outputs>>
    \/ /\ op = "add_edges_from_post_data" /\ raised = "none"
       /\ AddEdgesFromCommentData(active_comments_data, active_posts_data)
       /\ UNCHANGED <<Inputs, Outputs>>

SpecPipeline == InitPipeline /\ [][NextPipeline]_vars

----------------------------------------------------------------------------
(* Claims about the activity filters *)

PostsOwned(u) == Cardinality({i \in DOMAIN posts : posts[i].OwnerUserId = u})
CommentsWritten(u) == Cardinality({i \in DOMAIN comments : comments[i].UserId = u})
Combined(u) == PostsOwned(u) + CommentsWritten(u)

\* result holds the rows of table that are in kept, each as often as table
\* holds it, and no other row
SameRows(result, table, kept) ==
    /\ \A i \in DOMAIN result : result[i] \in kept
    /\ \A r \in SeqToSet(table) \cup SeqToSet(result) :
          Cardinality({i \in DOMAIN result : result[i] = r})
              = IF r \in kept THEN Cardinality({i \in DOMAIN table : table[i] = r}) ELSE 0

\* C4: preprocess_user_data returns exactly the rows of the users table whose
\* Id has at least one post or comment and a combined count >= threshold
\* (inclusive); a user without posts and comments is never returned.
C4_ActiveUsersExact ==
    "preprocess_user_data" \in called =>
        LET kept == {r \in SeqToSet(users) :
                        Combined(r.Id) >= 1 /\ Combined(r.Id) >= threshold}
        IN  /\ SameRows(active_user_data, users, kept)
            /\ \A u \in Ids(users) : Combined(u) = 0 => u \notin Ids(active_user_data)

\* user 1 with two posts and one comment passes threshold 3, the bound being
\* inclusive, and a user of the table without activity is left out
C4_Witness ==
    /\ op = "preprocess_user_data" /\ threshold = 3 /\ UniqueIds(posts)
    /\ Combined(1) = 3 /\ 1 \in Ids(active_user_data)
    /\ 2 \in Ids(users) /\ Combined(2) = 0 /\ 2 \notin Ids(active_user_data)

\* C5: the users returned for a threshold are among those returned for any
\* smaller threshold, on the same three tables.
C5_ThresholdMonotone ==
    "preprocess_user_data" \in called =>
        \A t \in Thresholds :
            /\ t < threshold =>
                   Ids(active_user_data) \subseteq Ids(preprocess_user_data(users, posts, comments, t))
            /\ t > threshold =>
                   Ids(preprocess_user_data(users, posts, comments, t)) \subseteq Ids(active_user_data)

\* a user is returned for the threshold and not for a larger one
C5_Witness ==
    /\ op = "preprocess_user_data" /\ threshold = 1 /\ UniqueIds(posts)
    /\ Ids(active_user_data) = {1, 2}
    /\ Ids(preprocess_user_data(users, posts, comments, 2)) = {1}
    /\ Ids(preprocess_user_data(users, posts, comments, 3)) = {}

\* C6: preprocess_post_data keeps exactly the posts whose owner is the Id of
\* a row of active_user_data; preprocess_comment_data keeps exactly the
\* comments whose UserId is such an Id and whose PostId is the Id of a kept
\* post, both conditions being required.
C6_FilterConsistency ==
    /\ "preprocess_post_data" \in called =>
           LET kept == {r \in SeqToSet(posts) : r.OwnerUserId \in Ids(active_user_data)}
           IN  SameRows(active_posts_data, posts, kept)
    /\ "preprocess_comment_data" \in called =>
           LET kept == {r \in SeqToSet(comments) :
                           /\ r.UserId \in Ids(active_user_data)
                           /\ r.PostId \in Ids(active_posts_data)}
           IN  SameRows(active_comments_data, comments, kept)

\* a post is kept, and a comment of an active user on a post that is not
\* kept is dropped
C6_Witness ==
    /\ op = "preprocess_comment_data"
    /\ active_posts_data # <<>> /\ Len(active_posts_data) < Len(posts)
    /\ comments # <<>> /\ active_comments_data = <<>>
    /\ comments[1].UserId \in Ids(active_user_data)
    /\ comments[1].PostId \in Ids(posts) \ Ids(active_posts_data)

\* C10: while the pipeline builds the graph from the filtered tables, every
\* node and every endpoint of an edge is the Id of an active user.
C10_OnlyActiveUsers ==
    /\ Nodes(G) \subseteq Ids(active_user_data)
    /\ \A e \in Edges(G) : e \subseteq Ids(active_user_data)

\* the pipeline has run to its end and has built an edge, on tables that
\* hold a post of a user who is not active
C10_Witness ==
    /\ op = "add_edges_from_comment_data" /\ raised = "none" /\ UniqueIds(posts)
    /\ Edges(G) # {}
    /\ Len(active_posts_data) < Len(posts)

----------------------------------------------------------------------------
(* Specification of the node builders: a users table with attribute columns, *)
(* a graph that already holds nodes and edges, and repeated calls            *)

T1 == Timestamp(2020, 1, 2, 3, 4, 5)
T2 == Timestamp(1999, 12, 31, 23, 59, 58)
N1 == IntVal(1)
N2 == IntVal(2)

\* the str "2020-01-02 03:04:05"
S1 == Str(<<"2", "0", "2", "0", "-", "0", "1", "-", "0", "2", " ",
            "0", "3", ":", "0", "4", ":", "0", "5">>)

ColumnValues(col) == IF col = "CreationDate" THEN {T1, T2, NaT} ELSE {N1, N2}

\* the rows of a users table whose other columns are cols
UserRows(cols) ==
    {("Id" :> i) @@ a : i \in UserIds,
                       a \in {f \in [cols -> {T1, T2, NaT, N1, N2}] :
                                 \A c \in cols : f[c] \in ColumnValues(c)}}

UserTables ==
    UNION {TablesUpTo(UserRows(cols), MaxUsers) : cols \in SUBSET {"CreationDate", "Reputation"}}

PairsOf(S) == {e \in SUBSET S : Cardinality(e) = 2}

\* graphs over the user ids whose nodes carry a bag of Bags and whose edges
\* (no self-loop) carry a bag of EdgeBags
GraphsOver(Bags, EdgeBags) ==
    {[node |-> f, edge |-> e] :
        <<f, e>> \in UNION {[S -> Bags] \X UNION {[E -> EdgeBags] : E \in SUBSET PairsOf(S)} :
                              S \in SUBSET UserIds}}

StartBags == {EmptyBag, "Reputation" :> N1, "CreationDate" :> T1}

InitNodes ==
    /\ users \in UserTables
    /\ G \in GraphsOver(StartBags, {EmptyBag}) /\ Gu = G
    /\ Fresh
    /\ posts = <<>> /\ comments = <<>> /\ threshold = 0
    /\ active_user_data = <<>>
    /\ active_posts_data = <<>>
    /\ active_comments_data = <<>>

NextNodes == AddNodesFromUserData(users) /\ UNCHANGED <<Inputs, Outputs>>

SpecNodes == InitNodes /\ [][NextNodes]_vars

----------------------------------------------------------------------------
(* Claims about the node builders *)

\* the non-Id columns of the last row of table whose Id is n
LastRowAttrs(table, n) ==
    LET last == CHOOSE i \in DOMAIN table :
                    /\ table[i].Id = n
                    /\ \A j \in DOMAIN table : table[j].Id = n => j <= i
    IN  [k \in DOMAIN table[last] \ {"Id"} |-> table[last][k]]

\* the bag the claim describes: the earlier bag, overwritten and extended by
\* the non-Id columns of the rows of the table that carry the node's Id
MergedBag(g0, table, n) ==
    LET earlier == IF n \in Nodes(g0) THEN g0.node[n] ELSE EmptyBag
        new     == IF n \in Ids(table) THEN LastRowAttrs(table, n) ELSE EmptyBag
    IN  [k \in DOMAIN earlier \cup DOMAIN new |->
            IF k \in DOMAIN new THEN new[k] ELSE earlier[k]]

NodesAdded(g0, g, table) ==
    /\ Nodes(g) = Nodes(g0) \cup Ids(table)
    /\ \A n \in Nodes(g) : "Id" \notin DOMAIN g.node[n]
    /\ g.edge = g0.edge

\* C7 as stated, for both builders: one node per Id, its bag the earlier bag
\* overwritten and extended by the row's non-Id columns, no Id attribute,
\* edges unchanged.
C7_MergedBagBothBuilders ==
    op = "add_nodes_from_user_data" =>
        /\ NodesAdded(G0, G, users)
        /\ \A n \in Nodes(G) : G.node[n] = MergedBag(G0, users, n)
        /\ NodesAdded(Gu0, Gu, users)
        /\ \A n \in Nodes(Gu) : Gu.node[n] = MergedBag(Gu0, users, n)

\* C7 amended: the statement holds of add_nodes_from_user_data of src/temp.py;
\* add_nodes_from_user_data of src/src/utils.py is idempotent on the node set,
\* stores no Id attribute and leaves the edges unchanged too, but stores no
\* column of the row: a known node keeps its earlier bag, a new node is bare.
C7_IdempotentNodeInsertion ==
    op = "add_nodes_from_user_data" =>
        /\ NodesAdded(G0, G, users)
        /\ \A n \in Nodes(G) : G.node[n] = MergedBag(G0, users, n)
        /\ NodesAdded(Gu0, Gu, users)
        /\ \A n \in Nodes(Gu) :
              Gu.node[n] = IF n \in Nodes(Gu0) THEN Gu0.node[n] ELSE EmptyBag

\* a table whose two rows carry the Id of a node that holds a Reputation and
\* an edge: the Reputation is overwritten, a CreationDate is added, the edge
\* is still there
C7_Witness ==
    /\ op = "add_nodes_from_user_data"
    /\ Len(users) = 2 /\ users[1].Id = 1 /\ users[2].Id = 1
    /\ G0.node = (1 :> ("Reputation" :> N1)) @@ (2 :> EmptyBag)
    /\ Edges(G0) = {{1, 2}}
    /\ G.node[1] = ("Reputation" :> N2) @@ ("CreationDate" :> T1)
    /\ Edges(G) = {{1, 2}}
    /\ Gu.node[1] = ("Reputation" :> N1)

----------------------------------------------------------------------------
(* Specification of the normaliser: a graph with attributes on nodes and   *)
(* edges, and repeated calls of convert_timestamps_to_strings               *)

AttrValues == {T1, T2, S1, N1, NaT}

BagsOver(names) == UNION {[K -> AttrValues] : K \in SUBSET names}

InitConvert ==
    /\ G \in GraphsOver(BagsOver({"CreationDate", "LastAccessDate"}), BagsOver({"CreationDate"}))
    /\ Gu = EmptyGraph
    /\ Fresh
    /\ posts = <<>> /\ comments = <<>>
    /\ Idle

ConvertTimestampsToStrings ==
    /\ G' = convert_timestamps_to_strings(G)
    /\ G0' = G
    /\ op' = "convert_timestamps_to_strings"
    /\ called' = called \cup {"convert_timestamps_to_strings"}
    /\ UNCHANGED <<Inputs, Outputs, Gu, Gu0, raised, raisedU>>

NextConvert == ConvertTimestampsToStrings

SpecConvert == InitConvert /\ [][NextConvert]_vars

----------------------------------------------------------------------------
(* Claims about the normaliser *)

DigitValue(c) == CHOOSE d \in 0 .. 9 : Digits[d + 1] = c

RECURSIVE Number(_)
\* the number a sequence of digit characters writes
Number(chars) ==
    IF chars = <<>> THEN 0
    ELSE 10 * Number(SubSeq(chars, 1, Len(chars) - 1)) + DigitValue(chars[Len(chars)])

\* s is the str 'YYYY-MM-DD HH:MM:SS' of the timestamp ts
IsStringOf(s, ts) ==
    /\ s.type = "str" /\ Len(s.chars) = 19
    /\ \A i \in (1 .. 19) \ {5, 8, 11, 14, 17} : \E d \in 1 .. 10 : Digits[d] = s.chars[i]
    /\ s.chars[5] = "-" /\ s.chars[8] = "-" /\ s.chars[11] = " "
    /\ s.chars[14] = ":" /\ s.chars[17] = ":"
    /\ Number(SubSeq(s.chars, 1, 4)) = ts.year
    /\ Number(SubSeq(s.chars, 6, 7)) = ts.month
    /\ Number(SubSeq(s.chars, 9, 10)) = ts.day
    /\ Number(SubSeq(s.chars, 12, 13)) = ts.hour
    /\ Number(SubSeq(s.chars, 15, 16)) = ts.minute
    /\ Number(SubSeq(s.chars, 18, 19)) = ts.second

BagNormalised(before, after) ==
    /\ DOMAIN after = DOMAIN before
    /\ \A k \in DOMAIN before :
          IF before[k].type = "Timestamp"
          THEN IsStringOf(after[k], before[k])
          ELSE after[k] = before[k]

====
